---------------------------- MODULE Spec2Model ----------------------------
(***************************************************************************)
(* Model of backbones/check.py: a regression harness that discovers the    *)
(* *.cnf entries under a directory, runs an external solver on each one in *)
(* sorted order, and checks the backbone count reported on the first line  *)
(* of the solver's standard output.                                        *)
(*                                                                         *)
(* Text is modelled as sequences of code points, solver output as          *)
(* sequences of bytes (0..255), a path as the sequence of its components.  *)
(***************************************************************************)
EXTENDS Integers, Sequences, FiniteSets, TLC

(***************************************************************************)
(* Bounds of the model.                                                    *)
(***************************************************************************)
\* Largest number of entries in a directory listing, and of paths that
\* line 18 discovers.
MaxEntries == 3
\* Backbone counts 0..MaxCount are reported by the solver and expected.
MaxCount == 1

(***************************************************************************)
(* Text literals of the script, as code points.                            *)
(***************************************************************************)
\* "Found " and " backbones": the literal parts of the pattern (line 30).
FoundPrefix == <<70, 111, 117, 110, 100, 32>>
BackbonesSuffix == <<32, 98, 97, 99, 107, 98, 111, 110, 101, 115>>
\* ".cnf": the literal part of the glob pattern '*.cnf' (line 18).
CnfSuffix == <<46, 99, 110, 102>>
\* "Failed to parse line: " (line 35).
FailedPrefix ==
  <<70, 97, 105, 108, 101, 100, 32, 116, 111, 32, 112, 97, 114, 115, 101,
    32, 108, 105, 110, 101, 58, 32>>
\* "Wrong backbone count: " and ", expected " (line 33).
WrongPrefix ==
  <<87, 114, 111, 110, 103, 32, 98, 97, 99, 107, 98, 111, 110, 101, 32,
    99, 111, 117, 110, 116, 58, 32>>
ExpectedInfix == <<44, 32, 101, 120, 112, 101, 99, 116, 101, 100, 32>>

(***************************************************************************)
(* bytes.splitlines(keepends=False): lines end at \n, \r or \r\n; an empty *)
(* input has no lines, and a final terminator opens no further line.       *)
(***************************************************************************)
IsLineEnd(b) == b = 10 \/ b = 13

FirstLineEnd(bytes) ==
  IF \E k \in 1..Len(bytes) : IsLineEnd(bytes[k])
  THEN CHOOSE k \in 1..Len(bytes) :
         /\ IsLineEnd(bytes[k])
         /\ \A j \in 1..(k - 1) : ~IsLineEnd(bytes[j])
  ELSE 0

\* The lines of bytes, as a function of the byte string.
SplitLines[bytes \in Seq(Nat)] ==
  IF bytes = <<>> THEN <<>>
  ELSE LET k == FirstLineEnd(bytes) IN
       IF k = 0 THEN <<bytes>>
       ELSE LET skip == IF bytes[k] = 13 /\ k < Len(bytes) /\ bytes[k + 1] = 10
                        THEN 2 ELSE 1
            IN <<SubSeq(bytes, 1, k - 1)>>
                 \o SplitLines[SubSeq(bytes, k + skip, Len(bytes))]

splitlines(bytes) == SplitLines[bytes]

(***************************************************************************)
(* bytes.decode("utf8"), strict: the text, or a UnicodeDecodeError when    *)
(* the bytes are not well-formed UTF-8 (stray continuation or lead bytes,  *)
(* overlong forms, surrogates, code points above U+10FFFF).                *)
(***************************************************************************)
IsCont(bytes, i) == i <= Len(bytes) /\ bytes[i] \in 128..191

\* Number of bytes of the well-formed sequence starting at i; 0 if none.
Utf8Width(bytes, i) ==
  LET b0 == bytes[i]
      b1 == IF i < Len(bytes) THEN bytes[i + 1] ELSE 0
  IN CASE b0 < 128 -> 1
       [] b0 \in 194..223 /\ IsCont(bytes, i + 1) -> 2
       [] /\ b0 \in 224..239
          /\ IsCont(bytes, i + 1) /\ IsCont(bytes, i + 2)
          /\ (b0 = 224 => b1 >= 160)
          /\ (b0 = 237 => b1 <= 159) -> 3
       [] /\ b0 \in 240..244
          /\ IsCont(bytes, i + 1) /\ IsCont(bytes, i + 2) /\ IsCont(bytes, i + 3)
          /\ (b0 = 240 => b1 >= 144)
          /\ (b0 = 244 => b1 <= 143) -> 4
       [] OTHER -> 0

Utf8CodePoint(bytes, i, w) ==
  CASE w = 1 -> bytes[i]
    [] w = 2 -> (bytes[i] - 192) * 64 + (bytes[i + 1] - 128)
    [] w = 3 -> (bytes[i] - 224) * 4096 + (bytes[i + 1] - 128) * 64
                + (bytes[i + 2] - 128)
    [] w = 4 -> (bytes[i] - 240) * 262144 + (bytes[i + 1] - 128) * 4096
                + (bytes[i + 2] - 128) * 64 + (bytes[i + 3] - 128)

\* The bytes from position i on, decoded after the code points in text.
DecodeFrom[bytes \in Seq(Nat), i \in Nat, text \in Seq(Nat)] ==
  IF i > Len(bytes) THEN [ok |-> TRUE, text |-> text]
  ELSE LET w == Utf8Width(bytes, i) IN
       IF w = 0 THEN [ok |-> FALSE, text |-> <<>>]
       ELSE DecodeFrom[bytes, i + w, Append(text, Utf8CodePoint(bytes, i, w))]

decode(bytes) == DecodeFrom[bytes, 1, <<>>]

(***************************************************************************)
(* re.search("Found (\\d+) backbones", line) on text: \d is any Unicode    *)
(* decimal digit (category Nd); each block of ten digits starts at one of  *)
(* the zeros below.  The leftmost match wins; group 1 is its digit run.    *)
(***************************************************************************)
DecimalZeros ==
  {48, 1632, 1776, 1984, 2406, 2534, 2662, 2790, 2918, 3046, 3174, 3302,
   3430, 3558, 3664, 3792, 3872, 4160, 4240, 6112, 6160, 6470, 6608, 6784,
   6800, 6992, 7088, 7232, 7248, 42528, 43216, 43264, 43472, 43504, 43600,
   44016, 65296, 66720, 68912, 69734, 69872, 69942, 70096, 70384, 70736,
   70864, 71248, 71360, 71472, 71904, 72016, 72784, 73040, 73120, 92768,
   92864, 93008, 120782, 120792, 120802, 120812, 120822, 123200, 123632,
   125264, 130032}

IsDigit(c) == \E z \in DecimalZeros : z <= c /\ c <= z + 9

DigitValue(c) == c - (CHOOSE z \in DecimalZeros : z <= c /\ c <= z + 9)

HasAt(text, p, lit) ==
  /\ p + Len(lit) - 1 <= Len(text)
  /\ \A j \in 1..Len(lit) : text[p + j - 1] = lit[j]

\* Length of the longest run of digits of text starting at position p.
DigitRun[text \in Seq(Nat), p \in Nat] ==
  IF p <= Len(text) /\ IsDigit(text[p]) THEN 1 + DigitRun[text, p + 1] ELSE 0

\* The pattern matches at position p: "Found ", one or more digits (as many
\* as there are, the next character being a space), " backbones".
MatchAt(text, p) ==
  /\ HasAt(text, p, FoundPrefix)
  /\ LET run == DigitRun[text, p + Len(FoundPrefix)] IN
     /\ run >= 1
     /\ HasAt(text, p + Len(FoundPrefix) + run, BackbonesSuffix)

\* The match object of the leftmost match at or after position p: matched
\* is FALSE for None; group is found[1].
SearchFrom[text \in Seq(Nat), p \in Nat] ==
  IF p > Len(text) THEN [matched |-> FALSE, group |-> <<>>]
  ELSE IF MatchAt(text, p)
       THEN LET d == p + Len(FoundPrefix)
            IN [matched |-> TRUE,
                group |-> SubSeq(text, d, d + DigitRun[text, d] - 1)]
       ELSE SearchFrom[text, p + 1]

search(text) == SearchFrom[text, 1]

\* sys.get_int_max_str_digits(): the longest decimal string int() converts.
MaxStrDigits == 4300

\* The digits from the first one that is not a zero on.
Significant(digits) ==
  LET nonzero == {k \in 1..Len(digits) : DigitValue(digits[k]) # 0} IN
  IF nonzero = {} THEN <<>>
  ELSE SubSeq(digits, CHOOSE k \in nonzero : \A j \in nonzero : k <= j,
              Len(digits))

\* The value of a run of decimal digits.
IntOf[digits \in Seq(Nat)] ==
  IF digits = <<>> THEN 0
  ELSE IntOf[SubSeq(digits, 1, Len(digits) - 1)] * 10
       + DigitValue(digits[Len(digits)])

\* int() on a run of decimal digits: the value, or a ValueError for an
\* empty string and for more than MaxStrDigits digits (leading zeros
\* count).
IntValue[digits \in Seq(Nat)] ==
  IF digits = <<>> \/ Len(digits) > MaxStrDigits
  THEN [exc |-> "ValueError", value |-> 0]
  ELSE [exc |-> "", value |-> IntOf[Significant(digits)]]

int(digits) == IntValue[digits]

\* str(n) for an integer, as the f-string of line 33 formats it.
DecimalDigits[n \in Nat] ==
  IF n < 10 THEN <<48 + n>>
  ELSE DecimalDigits[n \div 10] \o <<48 + (n % 10)>>

IntToStr(n) == IF n < 0 THEN <<45>> \o DecimalDigits[-n] ELSE DecimalDigits[n]

(***************************************************************************)
(* Paths.  A path is the sequence of its components, each a text.  str()   *)
(* joins the components with "/"; pathlib orders paths component by        *)
(* component, and components as strings, by code point.                    *)
(***************************************************************************)
Min(a, b) == IF a <= b THEN a ELSE b

StrLess(a, b) ==
  \E k \in 1..(Min(Len(a), Len(b)) + 1) :
    /\ \A j \in 1..(k - 1) : a[j] = b[j]
    /\ \/ k > Len(a) /\ k <= Len(b)
       \/ k <= Len(a) /\ k <= Len(b) /\ a[k] < b[k]

PathLess(p, q) ==
  \E k \in 1..(Min(Len(p), Len(q)) + 1) :
    /\ \A j \in 1..(k - 1) : p[j] = q[j]
    /\ \/ k > Len(p) /\ k <= Len(q)
       \/ k <= Len(p) /\ k <= Len(q) /\ StrLess(p[k], q[k])

RECURSIVE PathStr(_)
PathStr(path) ==
  IF Len(path) = 1 THEN path[1]
  ELSE PathStr(SubSeq(path, 1, Len(path) - 1)) \o <<47>> \o path[Len(path)]

\* Variant: the list in descending order (a reversed comparison).
RECURSIVE sorted_Reversed(_)
sorted_Reversed(paths) ==
  IF paths = {} THEN <<>>
  ELSE LET m == CHOOSE x \in paths : \A y \in paths \ {x} : PathLess(y, x)
       IN <<m>> \o sorted_Reversed(paths \ {m})

\* sorted(...) of a set of distinct paths.
RECURSIVE sorted(_)
sorted(paths) ==
  IF paths = {} THEN <<>>
  ELSE LET m == CHOOSE x \in paths : \A y \in paths \ {x} : PathLess(x, y)
       IN <<m>> \o sorted(paths \ {m})

\* Variant: the pattern '*', which every name matches.
MatchesCnf_Any(name) == Len(name) >= 0

\* fnmatch of a name against '*.cnf'.
MatchesCnf(name) ==
  /\ Len(name) >= Len(CnfSuffix)
  /\ SubSeq(name, Len(name) - Len(CnfSuffix) + 1, Len(name)) = CnfSuffix


(***************************************************************************)
(* The file system, as the system calls of the script find it.  Other      *)
(* processes (the solver among them) may change it between any two calls,  *)
(* so each call is given what it finds at that moment.                     *)
(***************************************************************************)
\* What a path leads to: a regular file (or a link that leads to one), a
\* directory, a dangling symbolic link, a socket or a FIFO.
Kinds == {"file", "dir", "link", "socket", "fifo"}

\* An entry of some kind; access is FALSE when the user running the script
\* is denied it (mode 000).
Thing(kind) == [kind |-> kind, access |-> TRUE]
Locked(thing) == [thing EXCEPT !.access = FALSE]
\* No entry at all.
Nothing == [kind |-> "none", access |-> TRUE]

Things ==
  {Nothing} \cup {Thing(k) : k \in Kinds}
    \cup {Locked(Thing(k)) : k \in Kinds \ {"link"}}

\* The exception the kernel raises while it walks a path down to its last
\* component, "" when it gets there.  above is <<>> when every directory on
\* the way can be passed, else <<t>> with t what the walk finds at the
\* first component that is not such a directory.
WalkError(above) ==
  IF above = <<>> THEN ""
  ELSE LET d == above[1] IN
       CASE d.kind \in {"none", "link"} -> "FileNotFoundError"
         [] d.kind = "dir" /\ d.access -> ""
         [] d.kind = "dir" /\ ~d.access -> "PermissionError"
         [] OTHER -> "NotADirectoryError"

\* open(file) at line 21: the exception it raises, "" when it does not
\* raise.  here is what the last component leads to.
OpenError(above, here) ==
  IF WalkError(above) # "" THEN WalkError(above)
  ELSE CASE here.kind \in {"none", "link"} -> "FileNotFoundError"
         [] here.kind \notin {"none", "link"} /\ ~here.access -> "PermissionError"
         [] here.kind = "dir" /\ here.access -> "IsADirectoryError"
         [] here.kind = "socket" /\ here.access -> "OSError"
         [] OTHER -> ""

\* open(file) at line 21 does not return at once: a FIFO that nobody has
\* opened for writing.
OpenBlocks(above, here) ==
  OpenError(above, here) = "" /\ here.kind = "fifo"

\* Path.is_dir(), which rglob asks of the input directory before anything
\* else: a directory that may not be passed on the way raises
\* PermissionError, every other failure of stat counts as "no".
is_dir(above, here) ==
  IF WalkError(above) = "PermissionError"
  THEN [exc |-> "PermissionError", value |-> FALSE]
  ELSE [exc |-> "", value |-> WalkError(above) = "" /\ here.kind = "dir"]

\* os.scandir(path): the exception it raises, or the entries it lists.
scandir(above, here, listing) ==
  IF WalkError(above) # "" THEN [exc |-> WalkError(above), entries |-> {}]
  ELSE CASE here.kind \in {"none", "link"} ->
              [exc |-> "FileNotFoundError", entries |-> {}]
         [] here.kind = "dir" /\ ~here.access ->
              [exc |-> "PermissionError", entries |-> {}]
         [] here.kind = "dir" /\ here.access ->
              [exc |-> "", entries |-> listing]
         [] OTHER -> [exc |-> "NotADirectoryError", entries |-> {}]

\* The entries of a listing that '*.cnf' selects, as paths below dir.
Selected(dir, listing) ==
  {Append(dir, e.name) : e \in {x \in listing : MatchesCnf(x.name)}}

\* The directories of a listing, which rglob goes on to visit.
Subdirs(dir, listing) ==
  {Append(dir, e.name) : e \in {x \in listing : x.kind = "dir"}}

\* The orders in which scandir may hand out the members of a set.
Orders(set) ==
  {s \in [1..Cardinality(set) -> set] :
     \A i, j \in 1..Cardinality(set) : s[i] = s[j] => i = j}

(***************************************************************************)
(* Lines 29-36 as functions of the captured output.                        *)
(***************************************************************************)
\* Variant: an output without lines is read as one empty line.
FirstLine_EmptyDefault(stdout) ==
  LET lines == IF splitlines(stdout) = <<>> THEN << <<>> >>
               ELSE splitlines(stdout)
      d == decode(lines[1])
  IN IF d.ok THEN [exc |-> "", line |-> d.text]
     ELSE [exc |-> "UnicodeDecodeError", line |-> <<>>]

\* Variant: the last line is taken instead of the first (index -1).
FirstLine_LastLine(stdout) ==
  LET lines == splitlines(stdout) IN
  IF lines = <<>> THEN [exc |-> "IndexError", line |-> <<>>]
  ELSE LET d == decode(lines[Len(lines)]) IN
       IF d.ok THEN [exc |-> "", line |-> d.text]
       ELSE [exc |-> "UnicodeDecodeError", line |-> <<>>]

\* Line 29: process.stdout.splitlines(keepends=False)[0].decode("utf8").
\* exc names the exception raised, "" when there is none.
FirstLine(stdout) ==
  LET lines == splitlines(stdout) IN
  IF lines = <<>> THEN [exc |-> "IndexError", line |-> <<>>]
  ELSE LET d == decode(lines[1]) IN
       IF d.ok THEN [exc |-> "", line |-> d.text]
       ELSE [exc |-> "UnicodeDecodeError", line |-> <<>>]

\* Variant: the assert statement is dropped (as under python -O).
Check_NoAssert(text, expected) ==
  LET found == search(text) IN
  IF found.matched
  THEN LET n == int(found.group) IN
       IF n.exc # ""
       THEN [printed |-> <<>>, exc |-> n.exc, msg |-> <<>>, exit |-> <<1>>]
       ELSE [printed |-> <<>>, exc |-> "", msg |-> <<>>, exit |-> <<>>]
  ELSE [printed |-> <<FailedPrefix \o text>>, exc |-> "", msg |-> <<>>,
        exit |-> <<1>>]

\* Variant: an unparsable line is reported but the exit(1) is missing.
Check_NoExit(text, expected) ==
  LET found == search(text) IN
  IF found.matched
  THEN LET n == int(found.group)
           backbones == n.value
       IN IF n.exc # ""
          THEN [printed |-> <<>>, exc |-> n.exc, msg |-> <<>>, exit |-> <<1>>]
          ELSE IF backbones = expected
          THEN [printed |-> <<>>, exc |-> "", msg |-> <<>>, exit |-> <<>>]
          ELSE [printed |-> <<>>, exc |-> "AssertionError",
                msg |-> WrongPrefix \o IntToStr(backbones) \o ExpectedInfix
                          \o IntToStr(expected),
                exit |-> <<1>>]
  ELSE [printed |-> <<FailedPrefix \o text>>, exc |-> "", msg |-> <<>>,
        exit |-> <<>>]

\* Lines 30-36 on the decoded line: what is printed, the exception raised
\* ("" for none) with its message, and the exit status asked for (<<>> when
\* the loop goes on).  int() at line 32 may raise ValueError.
Check(text, expected) ==
  LET found == search(text) IN
  IF found.matched
  THEN LET n == int(found.group)
           backbones == n.value
       IN IF n.exc # ""
          THEN [printed |-> <<>>, exc |-> n.exc, msg |-> <<>>, exit |-> <<1>>]
          ELSE IF backbones = expected
          THEN [printed |-> <<>>, exc |-> "", msg |-> <<>>, exit |-> <<>>]
          ELSE [printed |-> <<>>, exc |-> "AssertionError",
                msg |-> WrongPrefix \o IntToStr(backbones) \o ExpectedInfix
                          \o IntToStr(expected),
                exit |-> <<1>>]
  ELSE [printed |-> <<FailedPrefix \o text>>, exc |-> "", msg |-> <<>>,
        exit |-> <<1>>]

\* Lines 29-36 together, for one captured output.
HandleOutput(stdout, expected) ==
  LET first == FirstLine(stdout) IN
  IF first.exc # ""
  THEN [printed |-> <<>>, exc |-> first.exc, msg |-> <<>>, exit |-> <<1>>]
  ELSE Check(first.line, expected)


(***************************************************************************)
(* The environment: what the file system may hold, the solver's possible   *)
(* standard outputs and return codes.                                      *)
(***************************************************************************)
\* The input directory "in" given as --dir.
InputDir == <<105, 110>>

\* What may be in the way above a path: nothing has to be, or the walk
\* meets a missing component, a dangling link, a directory that may not be
\* passed, or a file.
Aboves ==
  {<<>>} \cup {<<t>> : t \in {Nothing, Thing("link"), Locked(Thing("dir")),
                               Thing("file")}}

\* What a system call may find at a path.
Views == [above : Aboves, here : Things]

\* A directory entry as scandir reports it.
DirEntry(name, kind) == [name |-> name, kind |-> kind]

\* The entries a directory may hold: the input directory holds a.cnf,
\* e.txt, a directory a and a directory named d.cnf; the directories below
\* it hold a.cnf.
Candidates(dir) ==
  IF Len(dir) = 1
  THEN {DirEntry(<<97, 46, 99, 110, 102>>, "file"),
        DirEntry(<<101, 46, 116, 120, 116>>, "file"),
        DirEntry(<<97>>, "dir"),
        DirEntry(<<100, 46, 99, 110, 102>>, "dir")}
  ELSE {DirEntry(<<97, 46, 99, 110, 102>>, "file")}

\* The listings of the directory at dir: at most MaxEntries entries.
Listings(dir) ==
  {l \in SUBSET Candidates(dir) : Cardinality(l) <= MaxEntries}

\* What a scandir call may find at dir: a directory that can be listed,
\* with one of its listings, or anything else.
ScanViews(dir) ==
  {[above |-> <<>>, here |-> Thing("dir"), listing |-> l] :
     l \in Listings(dir)}
    \cup {[above |-> v.above, here |-> v.here, listing |-> {}] : v \in Views}

\* "Found <n> backbones", the line the solver is expected to print.
Report(n) == FoundPrefix \o IntToStr(n) \o BackbonesSuffix

\* "c Found 0<n> backbones.": a report inside other text, with a leading 0.
Noisy(n) ==
  <<99, 32>> \o FoundPrefix \o <<48>> \o IntToStr(n) \o BackbonesSuffix
    \o <<46>>

\* First lines the solver may print: a report, nothing, text without a
\* count, and bytes that are not UTF-8.
FirstLines ==
  {Report(n) : n \in 0..MaxCount}
    \cup {<<>>, FoundPrefix \o BackbonesSuffix, <<255>>}

\* What may follow a report: a line end and another report.
Tails == {<<10>> \o Report(0) \o <<10>>}

\* The outputs of a solver run: a first line alone (<<>> is no output at
\* all), a report followed by further lines, and a report inside other
\* text.
SolverOutputs ==
  FirstLines
    \cup {Report(n) \o t : n \in 0..MaxCount, t \in Tails}
    \cup {Noisy(MaxCount)}

ReturnCodes == {0, 1}

ExpectedCounts == 0..MaxCount

(***************************************************************************)
(* The state of a run of the script.                                       *)
(***************************************************************************)
VARIABLES
  args,       \* the parsed command line: dir, solver, bin, expected
  sys_stdout, \* "stream", or "none" when the script was started with its
              \* standard output closed (sys.stdout is None)
  todo,       \* line 18: the directories rglob has still to visit, in order
  found,      \* line 18: the paths rglob has yielded so far
  entries,    \* line 18: the entries the last '*.cnf' scan was given
  files,      \* the sorted list of discovered paths
  idx,        \* position of the for loop in files
  pc,         \* the statement about to run, or the call the script is in
  f,          \* the open input file: <<>> or <<[path, kind]>>
  process,    \* the last CompletedProcess: <<>> or <<[returncode, stdout]>>
  line,       \* the decoded first line: <<>> or <<text>>
  opened,     \* history: the paths open returned a file for, in order
  invoked,    \* history: solver invocations, in order
  outs,       \* history: the captured standard output of each completed run
  stdout,     \* the lines print has written to standard output (what a
              \* failed flush at exit loses of them is not told apart)
  stderr,     \* uncaught exceptions, with the line that raised; their
              \* traceback goes to standard error when the script ends
  exitcode,   \* the status the script ends on: <<>> or <<n>>
  status,     \* exit status of the process: <<>> while it runs, then <<n>>
  probe,      \* two captured outputs and an expected count, for HandleOutput
  handled     \* <<>> or the two results of HandleOutput on probe

vars ==
  <<args, sys_stdout, todo, found, entries, files, idx, pc, f, process, line,
    opened, invoked, outs, stdout, stderr, exitcode, status, probe, handled>>

NoProbe == [a |-> <<>>, b |-> <<>>, expected |-> 0]

Init ==
  /\ args \in [dir : {InputDir}, solver : {"oxisat"}, bin : {"bin"},
               expected : ExpectedCounts]
  /\ sys_stdout \in {"stream", "none"}
  /\ todo = <<>>
  /\ found = {}
  /\ entries = {}
  /\ files = <<>>
  /\ idx = 1
  /\ pc = "discover"
  /\ f = <<>>
  /\ process = <<>>
  /\ line = <<>>
  /\ opened = <<>>
  /\ invoked = <<>>
  /\ outs = <<>>
  /\ stdout = <<>>
  /\ stderr = <<>>
  /\ exitcode = <<>>
  /\ status = <<>>
  /\ probe = NoProbe
  /\ handled = <<>>

\* An uncaught exception raised at line at: the with block closes the
\* file and the script ends on status 1; the interpreter writes the
\* traceback to standard error as it ends (Exit).
Raise(exc, msg, at) ==
  /\ stderr' = Append(stderr, [exc |-> exc, msg |-> msg, at |-> at])
  /\ exitcode' = <<1>>
  /\ pc' = "exit"
  /\ f' = <<>>

\* exit(code), or the end of the script (code 0).
SysExit(code) ==
  /\ exitcode' = code
  /\ pc' = "exit"
  /\ f' = <<>>
  /\ stderr' = stderr

\* Line 18, Path(args.dir).rglob('*.cnf') up to its first scan: rglob
\* yields nothing for an input directory that is_dir() denies, and visits
\* it otherwise.
Discover ==
  /\ pc = "discover"
  /\ \E v \in Views :
       \E r \in {is_dir(v.above, v.here)} :
         IF r.exc # ""
         THEN /\ Raise(r.exc, <<>>, 18)
              /\ UNCHANGED <<todo, files>>
         ELSE IF r.value
         THEN /\ todo' = << <<args.dir>> >>
              /\ pc' = "scan"
              /\ UNCHANGED <<files, f, stderr, exitcode>>
         ELSE /\ files' = sorted({})
              /\ pc' = "loop"
              /\ UNCHANGED <<todo, f, stderr, exitcode>>
  /\ UNCHANGED <<args, sys_stdout, found, entries, idx, process, line, opened,
                 invoked, outs, stdout, status, probe, handled>>

\* Line 18, one directory of rglob's walk.  The directory is scanned
\* twice: once for the entries that match '*.cnf', which are yielded
\* whatever their kind, and once for its subdirectories, which are visited
\* next, before the directories still waiting.  A PermissionError of
\* either scan is swallowed (nothing is yielded, or nothing is visited);
\* any other error of scandir, as for a directory that has gone since its
\* parent was scanned, leaves line 18 as an uncaught exception.  When no
\* directory is left, sorted() puts the yielded paths in order.
Scan ==
  /\ pc = "scan"
  /\ \E m \in ScanViews(Head(todo)), d \in ScanViews(Head(todo)) :
       \E ms \in {scandir(m.above, m.here, m.listing)},
          ds \in {scandir(d.above, d.here, d.listing)} :
         IF ms.exc \notin {"", "PermissionError"}
         THEN /\ Raise(ms.exc, <<>>, 18)
              /\ todo' = <<>> /\ found' = {} /\ entries' = {}
              /\ files' = files
         ELSE IF ds.exc \notin {"", "PermissionError"}
         THEN /\ Raise(ds.exc, <<>>, 18)
              /\ todo' = <<>> /\ found' = {} /\ entries' = {}
              /\ files' = files
         ELSE /\ found' = found \cup Selected(Head(todo), ms.entries)
              /\ Cardinality(found') <= MaxEntries
              /\ \E order \in Orders(Subdirs(Head(todo), ds.entries)) :
                   todo' = order \o Tail(todo)
              /\ IF todo' = <<>>
                 THEN /\ files' = sorted(found')
                      /\ entries' = {}
                      /\ pc' = "loop"
                 ELSE /\ files' = files
                      /\ entries' = {[path |-> Append(Head(todo), e.name),
                                      kind |-> e.kind] : e \in ms.entries}
                      /\ pc' = "scan"
              /\ UNCHANGED <<f, stderr, exitcode>>
  /\ UNCHANGED <<args, sys_stdout, idx, process, line, opened, invoked, outs,
                 stdout, status, probe, handled>>

\* Variant: the loop stops one file early.
LoopNext_OffByOne ==
  /\ pc = "loop"
  /\ IF idx >= Len(files)
     THEN SysExit(<<0>>)
     ELSE pc' = "open" /\ UNCHANGED <<exitcode, f, stderr>>
  /\ UNCHANGED <<args, sys_stdout, todo, found, entries, files, idx, process,
                 line, opened, invoked, outs, stdout, status, probe, handled>>

\* Line 20: the for loop takes the next file, or the script ends (status 0).
LoopNext ==
  /\ pc = "loop"
  /\ IF idx > Len(files)
     THEN SysExit(<<0>>)
     ELSE pc' = "open" /\ UNCHANGED <<exitcode, f, stderr>>
  /\ UNCHANGED <<args, sys_stdout, todo, found, entries, files, idx, process,
                 line, opened, invoked, outs, stdout, status, probe, handled>>

\* open(file) returns the file object for what it found at the path.
OpenReturns(kind) ==
  /\ f' = <<[path |-> files[idx], kind |-> kind]>>
  /\ opened' = Append(opened, files[idx])
  /\ pc' = "run"
  /\ UNCHANGED <<args, sys_stdout, todo, found, entries, files, idx, process,
                 line, invoked, outs, stdout, stderr, exitcode, status, probe,
                 handled>>

\* Line 21: open(file), on what the path leads to when open is called.
\* What cannot be opened for reading ends the run on the OSError that open
\* raises; on a FIFO without a writer the script stays inside open.
Open ==
  /\ pc = "open"
  /\ \E v \in Views :
       \E exc \in {OpenError(v.above, v.here)} :
         IF exc # ""
         THEN /\ Raise(exc, <<>>, 21)
              /\ UNCHANGED <<args, sys_stdout, todo, found, entries, files,
                             idx, process, line, opened, invoked, outs,
                             stdout, status, probe, handled>>
         ELSE IF OpenBlocks(v.above, v.here)
         THEN /\ pc' = "opening"
              /\ UNCHANGED <<args, sys_stdout, todo, found, entries, files,
                             idx, f, process, line, opened, invoked, outs,
                             stdout, stderr, exitcode, status, probe, handled>>
         ELSE OpenReturns(v.here.kind)

\* Line 21 on a FIFO: open returns once another process has opened the
\* FIFO for writing.  The script holds the FIFO that open found; what
\* happens to the path in the meantime makes no difference.
Writer ==
  /\ pc = "opening"
  /\ OpenReturns("fifo")

\* The exceptions of subprocess.run when the binary cannot be started: it
\* is missing, is not executable, or cannot be executed.
StartErrors == {"FileNotFoundError", "PermissionError", "OSError"}

\* Lines 22-27, first half: subprocess.run starts [args.bin, args.solver]
\* with f as its standard input and waits for it, or fails to start it.
Start ==
  /\ pc = "run"
  /\ invoked' = Append(invoked, [argv |-> <<args.bin, args.solver>>,
                                 stdin |-> f[1].path])
  /\ \/ \E exc \in StartErrors : Raise(exc, <<>>, 22)
     \/ pc' = "wait" /\ UNCHANGED <<f, stderr, exitcode>>
  /\ UNCHANGED <<args, sys_stdout, todo, found, entries, files, idx, process,
                 line, opened, outs, stdout, status, probe, handled>>

\* Variant: subprocess.run(..., check=True), which raises
\* CalledProcessError on a non-zero return code.
Return_Check ==
  /\ pc = "wait"
  /\ \E rc \in ReturnCodes, out \in SolverOutputs :
       /\ outs' = Append(outs, out)
       /\ IF rc # 0
          THEN /\ Raise("CalledProcessError", <<>>, 22)
               /\ process' = process
          ELSE /\ process' = <<[returncode |-> rc, stdout |-> out]>>
               /\ pc' = "print"
               /\ UNCHANGED <<f, stderr, exitcode>>
  /\ UNCHANGED <<args, sys_stdout, todo, found, entries, files, idx, line,
                 opened, invoked, stdout, status, probe, handled>>

\* Lines 22-27, second half: the solver exits with some return code, having
\* written some standard output, and subprocess.run returns the
\* CompletedProcess (no check=True, no timeout: the script waits for as
\* long as the solver runs).
Return ==
  /\ pc = "wait"
  /\ \E rc \in ReturnCodes, out \in SolverOutputs :
       /\ process' = <<[returncode |-> rc, stdout |-> out]>>
       /\ outs' = Append(outs, out)
       /\ pc' = "print"
  /\ UNCHANGED <<args, sys_stdout, todo, found, entries, files, idx, f, line,
                 opened, invoked, stdout, stderr, exitcode, status, probe,
                 handled>>

\* print(file) has written the path and returns.
PrintFileReturns ==
  /\ stdout' = Append(stdout, PathStr(files[idx]))
  /\ pc' = "line"
  /\ UNCHANGED <<f, stderr, exitcode>>

\* print(file) fails: the write to standard output raises OSError (a pipe
\* whose reader has gone, a full device, a terminal that hung up).  The
\* names and lines of this model are ASCII, so that encoding them for
\* standard output does not fail.
PrintFileRaises ==
  /\ Raise("OSError", <<>>, 28)
  /\ stdout' = stdout

\* Variant: the path is printed only once the first line has been decoded
\* (print(file) placed after line 29).
PrintFile_AfterDecode ==
  /\ pc = "print"
  /\ IF sys_stdout = "none" \/ FirstLine(process[1].stdout).exc # ""
     THEN pc' = "line" /\ UNCHANGED <<stdout, f, stderr, exitcode>>
     ELSE \/ PrintFileReturns
          \/ PrintFileRaises
          \/ pc' = "printing" /\ UNCHANGED <<stdout, f, stderr, exitcode>>
  /\ UNCHANGED <<args, sys_stdout, todo, found, entries, files, idx, process,
                 line, opened, invoked, outs, status, probe, handled>>

\* Line 28: print(file).  Without a standard output print does nothing;
\* with one, the write is done, fails, or makes the script wait (a pipe
\* that is full).
PrintFile ==
  /\ pc = "print"
  /\ IF sys_stdout = "none"
     THEN pc' = "line" /\ UNCHANGED <<stdout, f, stderr, exitcode>>
     ELSE \/ PrintFileReturns
          \/ PrintFileRaises
          \/ pc' = "printing" /\ UNCHANGED <<stdout, f, stderr, exitcode>>
  /\ UNCHANGED <<args, sys_stdout, todo, found, entries, files, idx, process,
                 line, opened, invoked, outs, status, probe, handled>>

\* Line 29: line = process.stdout.splitlines(keepends=False)[0].decode("utf8").
ReadLine ==
  /\ pc = "line"
  /\ \E first \in {FirstLine(process[1].stdout)} :
     IF first.exc # ""
     THEN /\ Raise(first.exc, <<>>, 29)
          /\ line' = line
     ELSE /\ line' = <<first.line>>
          /\ pc' = "check"
          /\ UNCHANGED <<f, stderr, exitcode>>
  /\ UNCHANGED <<args, sys_stdout, todo, found, entries, files, idx, process,
                 opened, invoked, outs, stdout, status, probe, handled>>

\* Lines 31-36 once the print of line 35, if any, has returned: the
\* exception of line 32 or 33, the exit(1) of line 36, or the end of the
\* with block, after which the loop moves on.
Conclude(r) ==
  IF r.exc # ""
  THEN /\ Raise(r.exc, r.msg, IF r.exc = "AssertionError" THEN 33 ELSE 32)
       /\ idx' = idx
  ELSE IF r.exit # <<>>
  THEN /\ SysExit(r.exit)
       /\ idx' = idx
  ELSE /\ f' = <<>>
       /\ idx' = idx + 1
       /\ pc' = "loop"
       /\ UNCHANGED <<stderr, exitcode>>

\* The print of line 35 fails like the one of line 28.
ReportRaises ==
  /\ Raise("OSError", <<>>, 35)
  /\ UNCHANGED <<stdout, idx>>

\* Lines 30-36: search the line, convert and compare the count, or report
\* and exit(1).
CheckLine ==
  /\ pc = "check"
  /\ \E r \in {Check(line[1], args.expected)} :
       IF r.printed = <<>> \/ sys_stdout = "none"
       THEN Conclude(r) /\ stdout' = stdout
       ELSE \/ Conclude(r) /\ stdout' = stdout \o r.printed
            \/ ReportRaises
            \/ pc' = "reporting" /\ UNCHANGED <<stdout, idx, f, stderr, exitcode>>
  /\ UNCHANGED <<args, sys_stdout, todo, found, entries, files, process, line,
                 opened, invoked, outs, status, probe, handled>>

\* Text has gone to standard output and has not been seen to arrive: a
\* line that print took, or one it failed on.
Unflushed ==
  /\ sys_stdout = "stream"
  /\ \/ stdout # <<>>
     \/ \E k \in 1..Len(stderr) :
          stderr[k].exc = "OSError" /\ stderr[k].at \in {28, 35}

\* Text is on its way out when the interpreter ends: what standard output
\* has not been seen to take, or the traceback of an uncaught exception,
\* which goes to standard error (exit(1) and the end of the script write
\* nothing there).
Pending == Unflushed \/ stderr # <<>>

\* The interpreter ends: it writes the traceback, flushes standard output
\* and standard error, and exits with the status the script ended on, or
\* with 120 when a flush fails.
Exits ==
  /\ pc' = "done"
  /\ \/ status' = exitcode
     \/ Pending /\ status' = <<120>>

\* The end of the script, whichever way it was reached.  The write of the
\* traceback and the flushes may make the interpreter wait like any other
\* write (a pipe that is full and that nobody reads).
Exit ==
  /\ pc = "exit"
  /\ \/ Exits
     \/ Pending /\ pc' = "flushing" /\ status' = status
  /\ UNCHANGED <<args, sys_stdout, todo, found, entries, files, idx, f,
                 process, line, opened, invoked, outs, stdout, stderr,
                 exitcode, probe, handled>>

\* A write that made the script wait goes on: the reader of standard
\* output, or of standard error at exit, has read, or has gone.
Drain ==
  /\ \/ /\ pc = "printing"
        /\ PrintFileReturns \/ PrintFileRaises
        /\ UNCHANGED <<idx, status>>
     \/ /\ pc = "reporting"
        /\ \E r \in {Check(line[1], args.expected)} :
             \/ Conclude(r) /\ stdout' = stdout \o r.printed
             \/ ReportRaises
        /\ status' = status
     \/ /\ pc = "flushing"
        /\ Exits
        /\ UNCHANGED <<idx, f, stdout, stderr, exitcode>>
  /\ UNCHANGED <<args, sys_stdout, todo, found, entries, files, process, line,
                 opened, invoked, outs, probe, handled>>

\* The steps of the script itself.
Script ==
  \/ Discover
  \/ Scan
  \/ LoopNext
  \/ Open
  \/ Start
  \/ PrintFile
  \/ ReadLine
  \/ CheckLine
  \/ Exit

\* The script, and what it waits for: a writer for a FIFO, the solver's
\* exit, room in standard output or standard error.
Next ==
  \/ Script
  \/ Writer
  \/ Return
  \/ Drain

Spec == Init /\ [][Next]_vars

\* The script is sequential: a statement that can be executed is
\* executed.  Nothing makes a FIFO find a writer, the solver exit or the
\* readers of standard output and standard error read.
FairSpec == Spec /\ WF_vars(Script)


(***************************************************************************)
(* HandleOutput on pairs of captured outputs: a second specification, in   *)
(* which lines 29-36 are applied to two outputs under the same expected    *)
(* count.                                                                  *)
(***************************************************************************)
\* First lines: reports, a report inside other text, a report in
\* Arabic-Indic digits, two reports on one line, a lower-case "found",
\* an empty line, no count, and two byte strings that are not UTF-8.
ProbeFirstLines ==
  {Report(n) : n \in 0..MaxCount}
    \cup {Noisy(MaxCount),
          FoundPrefix \o <<217, 160 + MaxCount>> \o BackbonesSuffix,
          Report(0) \o <<32>> \o Report(MaxCount),
          <<102>> \o SubSeq(Report(0), 2, Len(Report(0))),
          <<>>,
          FoundPrefix \o BackbonesSuffix,
          <<255>>,
          <<192, 128>>}

\* Continuations: nothing, each kind of line end, and further lines that
\* report other counts or are not UTF-8.
ProbeTails ==
  {<<>>, <<10>>, <<13>>,
   <<13, 10>> \o Report(0),
   <<10>> \o Report(MaxCount) \o <<10>>,
   <<10, 255>>}

ProbeOutputs == {h \o t : h \in ProbeFirstLines, t \in ProbeTails}

LineInit ==
  /\ probe \in [a : ProbeOutputs, b : ProbeOutputs, expected : ExpectedCounts]
  /\ handled = <<>>
  /\ args = [dir |-> InputDir, solver |-> "oxisat", bin |-> "bin",
             expected |-> probe.expected]
  /\ sys_stdout = "stream"
  /\ todo = <<>>
  /\ found = {}
  /\ entries = {}
  /\ files = <<>>
  /\ idx = 1
  /\ pc = "line"
  /\ f = <<>>
  /\ process = <<>>
  /\ line = <<>>
  /\ opened = <<>>
  /\ invoked = <<>>
  /\ outs = <<>>
  /\ stdout = <<>>
  /\ stderr = <<>>
  /\ exitcode = <<>>
  /\ status = <<>>

\* Lines 29-36 applied to each of the two outputs.
Consult ==
  /\ handled = <<>>
  /\ handled' = <<HandleOutput(probe.a, args.expected),
                  HandleOutput(probe.b, args.expected)>>
  /\ UNCHANGED <<args, sys_stdout, todo, found, entries, files, idx, pc, f,
                 process, line, opened, invoked, outs, stdout, stderr,
                 exitcode, status, probe>>

LineNext == Consult

LineSpec == LineInit /\ [][LineNext]_vars

(***************************************************************************)
(* Vocabulary of the properties.                                           *)
(***************************************************************************)
\* The process has exited.
Done == pc = "done"

\* The script waits: for a FIFO to find a writer, for the solver to exit,
\* or for room in standard output or standard error.
Blocked == pc \in {"opening", "wait", "printing", "reporting", "flushing"}

\* The paths handed to the solver, in the order of the invocations.
InvokedFiles == [k \in 1..Len(invoked) |-> invoked[k].stdin]

\* The path lines of the first n discovered files.
PathLines(n) == [k \in 1..n |-> PathStr(files[k])]

\* The name of path ends in ".cnf".
EndsInCnf(path) ==
  LET name == path[Len(path)] IN
  /\ Len(name) >= 4
  /\ name[Len(name) - 3] = 46 /\ name[Len(name) - 2] = 99
  /\ name[Len(name) - 1] = 110 /\ name[Len(name)] = 102

\* path lies below the input directory.
UnderInputDir(path) == Len(path) >= 2 /\ path[1] = args.dir

\* paths is in strictly ascending order, paths being compared component by
\* component.
Ascending(paths) ==
  \A i \in 1..Len(paths) : \A j \in (i + 1)..Len(paths) :
    PathLess(paths[i], paths[j])

\* The bytes of an output before its first line end.
LineOne(out) ==
  LET ends == {k \in 1..Len(out) : out[k] = 10 \/ out[k] = 13} IN
  IF ends = {} THEN out
  ELSE SubSeq(out, 1, (CHOOSE k \in ends : \A j \in ends : k <= j) - 1)

\* The first line of out is exactly "Found n backbones".
ReportsCount(out, n) == out # <<>> /\ LineOne(out) = Report(n)

\* The count the script parses from out: <<count>>, or <<>> when it gets
\* no count from it.
ParsedCount(out) ==
  LET first == FirstLine(out) IN
  IF first.exc # "" THEN <<>>
  ELSE LET found_ == search(first.line) IN
       IF found_.matched /\ int(found_.group).exc = ""
       THEN <<int(found_.group).value>> ELSE <<>>

\* out has a first line, and the pattern does not match it.
Unmatched(out) ==
  /\ out # <<>>
  /\ LET first == FirstLine(out) IN
     first.exc # "" \/ ~search(first.line).matched

\* File k's run has completed and the script is through with the file: it
\* has gone on to the next one, or the process has exited.
Settled(k) ==
  /\ k <= Len(outs)
  /\ (k < Len(outs) \/ pc \in {"loop", "open", "opening", "run", "wait", "done"})

\* The path line of file k has been printed.
PathPrinted(k) == \E i \in 1..Len(stdout) : stdout[i] = PathStr(files[k])

\* Some printed line is the diagnostic "Failed to parse line: ...".
DiagnosticPrinted == \E i \in 1..Len(stdout) : HasAt(stdout[i], 1, FailedPrefix)

\* The run stopped at file k with a non-zero status (1, or 120 when a
\* flush of standard output or standard error failed at exit): every file up to k was opened
\* and run, and no later one was opened, run or printed.
StoppedAt(k) ==
  /\ Done /\ idx = k /\ status \in {<<1>>, <<120>>}
  /\ opened = SubSeq(files, 1, k)
  /\ InvokedFiles = SubSeq(files, 1, k)
  /\ Len(outs) = k
  /\ \A j \in (k + 1)..Len(files) : ~PathPrinted(j)

\* Every output before the k-th yielded the expected count.
FirstDeviation(k) ==
  \A j \in 1..(k - 1) : ParsedCount(outs[j]) = <<args.expected>>

LastError == stderr[Len(stderr)]

\* The run ended on the uncaught exception exc raised at line at, and on
\* no other.
EndedOn(exc, at) ==
  /\ Len(stderr) = 1
  /\ LastError.exc = exc /\ LastError.at = at

\* Standard output is there and has taken every write: no print raised,
\* and no flush failed at exit.
StdoutWorks ==
  /\ sys_stdout = "stream"
  /\ status # <<120>>
  /\ \A k \in 1..Len(stderr) : stderr[k].at \notin {28, 35}

\* Nothing outside the script failed it: the input directory could be
\* walked (line 18), every file opened (line 21) and the solver started
\* (line 22).
NoEnvironmentError ==
  \A k \in 1..Len(stderr) : stderr[k].at \notin {18, 21, 22}

(***************************************************************************)
(* C1.  As claimed: a finished run in which every discovered file has an   *)
(* output whose first line is exactly "Found N backbones", N the expected  *)
(* count, has status 0, one invocation per file and exactly the path       *)
(* lines of the files.  Violated when standard output does not take a      *)
(* write (print raises OSError at line 28, or the flush at exit fails and  *)
(* the status is 120) and when the script runs without a standard output.  *)
(***************************************************************************)
C1_Original ==
  ( /\ Done
    /\ NoEnvironmentError
    /\ Len(outs) = Len(files)
    /\ \A k \in 1..Len(outs) : ReportsCount(outs[k], args.expected) ) =>
      /\ status = <<0>>
      /\ InvokedFiles = files
      /\ stdout = PathLines(Len(files))

(***************************************************************************)
(* C1, amended.  When the input directory can be walked, every discovered  *)
(* entry can be opened when its turn comes, the solver starts for each of  *)
(* them and exits with a first output line that is exactly "Found N        *)
(* backbones", N the expected count, and standard output takes every       *)
(* write, then the run terminates with exit status 0, has invoked the      *)
(* solver exactly once per file, and has printed exactly the path lines of *)
(* the files, in ascending path order (no file: no invocation, no line,    *)
(* status 0); without a standard output the same holds but for the lines.  *)
(* A run that is not left waiting (for a FIFO's writer, for the solver,    *)
(* for the reader of standard output) terminates.                          *)
(***************************************************************************)
C1_Premise ==
  /\ NoEnvironmentError
  /\ status # <<120>>
  /\ \A k \in 1..Len(stderr) : stderr[k].at \notin {28, 35}
  /\ \A k \in 1..Len(outs) : ReportsCount(outs[k], args.expected)

C1_AtEnd ==
  (Done /\ C1_Premise) =>
    /\ status = <<0>>
    /\ stderr = <<>>
    /\ Ascending(files)
    /\ opened = files
    /\ InvokedFiles = files
    /\ Len(outs) = Len(files)
    /\ stdout = IF sys_stdout = "stream" THEN PathLines(Len(files)) ELSE <<>>

C1_AllPass == [](C1_AtEnd) /\ ((<>[]~Blocked) => <>Done)

C1_Witness ==
  /\ Done /\ C1_Premise /\ status = <<0>>
  /\ sys_stdout = "stream"
  /\ Len(files) >= 2 /\ stdout = PathLines(Len(files))

(***************************************************************************)
(* C2.  As claimed: when the first output that deviates from the           *)
(* expectation has a parsed count different from the expected one, the     *)
(* run has aborted with a non-zero status as soon as the script is through *)
(* with that file, the path lines of the files up to and including that    *)
(* one have been printed, and no later file was run or printed.  Violated  *)
(* when print(file) raises OSError at line 28 for that file, and when the  *)
(* script runs without a standard output: the path is not printed.         *)
(***************************************************************************)
C2_Original ==
  \A k \in 1..Len(outs) :
    ( /\ Settled(k)
      /\ FirstDeviation(k)
      /\ ParsedCount(outs[k]) # <<>>
      /\ ParsedCount(outs[k]) # <<args.expected>> ) =>
        /\ Done /\ status \notin {<<>>, <<0>>}
        /\ stdout = PathLines(k)
        /\ InvokedFiles = SubSeq(files, 1, k)

(***************************************************************************)
(* C2, amended.  If the first output that deviates from the expectation    *)
(* has a parsed count different from the expected one, then as soon as the *)
(* script is through with that file the run has aborted with a non-zero    *)
(* status, and no later file is opened, run or printed.  Either the path   *)
(* lines of the files up to and including that one have been printed and   *)
(* the run ended on an AssertionError naming both counts, or the print of  *)
(* that file's path failed (OSError at line 28) after the path lines of    *)
(* the earlier files; without a standard output no line is printed.        *)
(***************************************************************************)
C2_FailFast ==
  \A k \in 1..Len(outs) :
    ( /\ Settled(k)
      /\ FirstDeviation(k)
      /\ ParsedCount(outs[k]) # <<>>
      /\ ParsedCount(outs[k]) # <<args.expected>> ) =>
        /\ StoppedAt(k)
        /\ \/ /\ EndedOn("AssertionError", 33)
              /\ LastError.msg =
                   WrongPrefix \o IntToStr(ParsedCount(outs[k])[1])
                     \o ExpectedInfix \o IntToStr(args.expected)
              /\ stdout = IF sys_stdout = "stream" THEN PathLines(k) ELSE <<>>
           \/ /\ EndedOn("OSError", 28)
              /\ sys_stdout = "stream"
              /\ stdout = PathLines(k - 1)

C2_Witness ==
  /\ Done /\ Len(outs) = 2 /\ Len(files) = 3
  /\ ParsedCount(outs[1]) = <<args.expected>>
  /\ ParsedCount(outs[2]) # <<>>
  /\ ParsedCount(outs[2]) # <<args.expected>>
  /\ EndedOn("AssertionError", 33)
  /\ stdout = PathLines(2)
  /\ status = <<1>>

(***************************************************************************)
(* C3.  As claimed, for a standard output that takes every write: whenever *)
(* the first line of a file's output does not match the pattern, the       *)
(* diagnostic with that line is printed, the run ends with status 1 and no *)
(* later file is opened, run or printed.  Violated by a first line that is *)
(* not UTF-8: line 29 raises UnicodeDecodeError and no diagnostic is       *)
(* printed.                                                                *)
(***************************************************************************)
C3_Original ==
  \A k \in 1..Len(outs) :
    (Settled(k) /\ Unmatched(outs[k]) /\ StdoutWorks) =>
      /\ StoppedAt(k)
      /\ status = <<1>>
      /\ DiagnosticPrinted

\* C3 restricted to first lines that are UTF-8: the diagnostic is the
\* prefix followed by the decoded line, printed after the path lines.
C3_Decodable ==
  \A k \in 1..Len(outs) :
    ( /\ Settled(k) /\ Unmatched(outs[k]) /\ StdoutWorks
      /\ decode(LineOne(outs[k])).ok ) =>
        /\ StoppedAt(k)
        /\ status = <<1>>
        /\ stdout = Append(PathLines(k),
                           FailedPrefix \o decode(LineOne(outs[k])).text)
        /\ stderr = <<>>

(***************************************************************************)
(* C4.  If the solver produced no output at all for a file, the run stops  *)
(* at that file on a fatal error with a non-zero status: the IndexError of *)
(* line 29, or the OSError of a print(file) that failed at line 28.  The   *)
(* pattern is never applied for that file (the script does not get past    *)
(* line 29, no diagnostic is printed) and no later file is opened, run or  *)
(* printed.                                                                *)
(***************************************************************************)
C4_NoOutput ==
  /\ \A k \in 1..Len(outs) :
       (Settled(k) /\ outs[k] = <<>>) =>
         /\ StoppedAt(k)
         /\ EndedOn("IndexError", 29) \/ EndedOn("OSError", 28)
         /\ ~DiagnosticPrinted
  /\ pc \in {"check", "reporting"} => outs[idx] # <<>>

C4_Witness ==
  /\ Done /\ Len(outs) = 2 /\ outs[2] = <<>> /\ Len(files) = 3
  /\ EndedOn("IndexError", 29)
  /\ status = <<1>>

(***************************************************************************)
(* C5.  The exit status is 0 only if every discovered file was passed to   *)
(* the solver and every output yielded a parsed count equal to the         *)
(* expected one; once the run has ended, any output that is missing a      *)
(* first line, unparsable or reports another count makes the status        *)
(* non-zero.                                                               *)
(***************************************************************************)
C5_ExitZero ==
  /\ status = <<0>> =>
       /\ Done
       /\ InvokedFiles = files
       /\ Len(outs) = Len(files)
       /\ \A k \in 1..Len(outs) : ParsedCount(outs[k]) = <<args.expected>>
  /\ Done => status # <<>>
  /\ (Done /\ \E k \in 1..Len(outs) : ParsedCount(outs[k]) # <<args.expected>>)
       => status # <<0>>

C5_Witness ==
  /\ status = <<0>> /\ Len(outs) = 2
  /\ \E k \in 1..Len(outs) : ~ReportsCount(outs[k], args.expected)

(***************************************************************************)
(* C6.  As claimed: when the run is over, every discovered file has had    *)
(* exactly one invocation attempt, in sorted order.  Violated by any run   *)
(* that aborts before the last file.                                       *)
(***************************************************************************)
C6_Original == Done => InvokedFiles = files

(***************************************************************************)
(* C6, amended.  The discovered list is in strictly ascending              *)
(* lexicographic order of the paths, compared component by component; at   *)
(* every moment the invocation attempts made are exactly an initial        *)
(* segment of that list, in order (none twice, none retried, none passed   *)
(* over); they cover the whole list when the run ends with status 0, and   *)
(* stop at the file that failed otherwise.                                 *)
(***************************************************************************)
C6_InOrderPrefix ==
  /\ Ascending(files)
  /\ Len(invoked) <= Len(files)
  /\ InvokedFiles = SubSeq(files, 1, Len(invoked))
  /\ Len(invoked) \in {idx - 1, idx}
  /\ status = <<0>> => InvokedFiles = files
  /\ (Done /\ status # <<0>>) => Len(invoked) <= idx

\* Two files whose order by components differs from the order of the
\* joined strings ("in/a/a.cnf" comes first, though "/" sorts after "."),
\* a third one, and a run that stopped at the second.
C6_Witness ==
  /\ Done /\ status = <<1>>
  /\ Len(invoked) = 2 /\ Len(files) = 3
  /\ Len(files[1]) = 3 /\ Len(files[2]) = 2
  /\ ~StrLess(PathStr(files[1]), PathStr(files[2]))

(***************************************************************************)
(* C7.  Every path discovered, opened or passed to the solver lies below   *)
(* the input directory and has a name ending in ".cnf"; the paths opened   *)
(* are the discovered ones, what open returned for them is a file (a       *)
(* regular file or a FIFO, never a directory), and the solver reads the    *)
(* file just opened.  Discovery goes into the subdirectories: of the       *)
(* entries a scan lists, at whatever depth, those whose name ends in       *)
(* ".cnf" are yielded and no other.                                        *)
(***************************************************************************)
C7_OnlyCnf ==
  /\ \A p \in found \cup {files[k] : k \in 1..Len(files)} :
       EndsInCnf(p) /\ UnderInputDir(p)
  /\ \A k \in 1..Len(opened) : opened[k] = files[k]
  /\ \A k \in 1..Len(invoked) :
       /\ invoked[k].stdin = opened[k]
       /\ invoked[k].argv = <<args.bin, args.solver>>
  /\ f # <<>> => (f[1].path = files[idx] /\ f[1].kind \in {"file", "fifo"})
  /\ \A e \in entries : e.path \in found <=> EndsInCnf(e.path)

C7_Witness ==
  /\ pc = "wait"
  /\ Len(files[idx]) = 3
  /\ invoked[idx].stdin = files[idx]
  /\ f[1].kind = "file"
  /\ Len(files) = 3

(***************************************************************************)
(* C8.  As claimed: the path line is printed only after the first line     *)
(* has been decoded, so the path of a file without output is never         *)
(* printed.  Violated: print(file) is line 28, the decoding line 29.       *)
(***************************************************************************)
C8_Original ==
  /\ pc = "line" => ~PathPrinted(idx)
  /\ \A k \in 1..Len(outs) : outs[k] = <<>> => ~PathPrinted(k)

(***************************************************************************)
(* C8, amended.  For each file the order is: open, run the solver, print   *)
(* the path, decode the first line, apply the pattern.  The path is        *)
(* printed after the solver has completed and before the first line is     *)
(* decoded, so a file without output still has its path printed, unless    *)
(* that print itself failed (OSError at line 28, which ends the run) or    *)
(* the script has no standard output.                                      *)
(***************************************************************************)
C8_PrintBeforeDecode ==
  /\ pc = "run" =>
       (f[1].path = files[idx] /\ Len(opened) = idx /\ Len(invoked) = idx - 1)
  /\ pc = "wait" =>
       (Len(invoked) = idx /\ Len(outs) = idx - 1 /\ ~PathPrinted(idx))
  /\ pc \in {"print", "printing"} =>
       (Len(outs) = idx /\ process[1].stdout = outs[idx] /\ ~PathPrinted(idx))
  /\ pc \in {"line", "check", "reporting"} =>
       /\ Len(outs) = idx /\ process[1].stdout = outs[idx]
       /\ sys_stdout = "stream" => (PathPrinted(idx) /\ stdout = PathLines(idx))
  /\ pc \in {"check", "reporting"} => line = <<FirstLine(outs[idx]).line>>
  /\ \A k \in 1..Len(files) : PathPrinted(k) => k <= Len(outs)
  /\ \A k \in 1..Len(outs) :
       Settled(k) =>
         \/ PathPrinted(k)
         \/ sys_stdout = "none"
         \/ idx = k /\ EndedOn("OSError", 28)

C8_Witness ==
  /\ Done /\ Len(outs) >= 1 /\ outs[Len(outs)] = <<>>
  /\ PathPrinted(Len(outs))
  /\ EndedOn("IndexError", 29)

(***************************************************************************)
(* C9.  Only the first line is consulted: two captured outputs that have   *)
(* the same first line (or both have none) lead lines 29-36 to the same    *)
(* result, printed text, exception, message and exit status, whatever      *)
(* follows the first line.                                                 *)
(***************************************************************************)
SameFirstLine(a, b) ==
  \/ a = <<>> /\ b = <<>>
  \/ a # <<>> /\ b # <<>> /\ LineOne(a) = LineOne(b)

C9_FirstLineOnly ==
  (handled # <<>> /\ SameFirstLine(probe.a, probe.b)) =>
    handled[1] = handled[2]

C9_Witness ==
  /\ handled # <<>>
  /\ SameFirstLine(probe.a, probe.b)
  /\ probe.a = Report(probe.expected)
  /\ probe.b = Report(probe.expected) \o <<13, 10>> \o Report(0)
  /\ probe.expected # 0
  /\ handled[2].exit = <<>>

(***************************************************************************)
(* C10.  The solver's return code plays no part: whatever it is, once the  *)
(* script is through with a file whose first output line is "Found N       *)
(* backbones", the file has passed (the loop has moved on) when N is the   *)
(* expected count and the run has aborted on an AssertionError when it is  *)
(* not; the one other end is a print(file) that failed at line 28, which   *)
(* no return code brings about or prevents.  While the script handles the  *)
(* output, the return code it holds is any of the solver's.                *)
(***************************************************************************)
C10_ReturnCodeIgnored ==
  \A k \in 1..Len(outs) : \A n \in 0..MaxCount :
    (Settled(k) /\ ReportsCount(outs[k], n)) =>
      IF Done /\ idx = k /\ stderr # <<>> /\ LastError.at = 28
      THEN StoppedAt(k) /\ EndedOn("OSError", 28)
      ELSE /\ n = args.expected => (idx > k /\ Len(opened) >= k)
           /\ n # args.expected =>
                (StoppedAt(k) /\ EndedOn("AssertionError", 33))

C10_Witness ==
  /\ pc = "loop" /\ Len(outs) = 2 /\ idx = 3
  /\ process = <<[returncode |-> 1, stdout |-> outs[2]]>>
  /\ ReportsCount(outs[2], args.expected)

=============================================================================
